---- MODULE Spec2Model ----
(***************************************************************************)
(* Job orchestration core of the video download manager: the gateway's     *)
(* persistence layer (jobs, media, job_events and the SQL triggers), the   *)
(* Control API handlers, the BullMQ queues and Redis lists, the dubbing    *)
(* worker, the event aggregator (handleRedisEvent) and the socket.io       *)
(* subscription gateway.                                                   *)
(*                                                                         *)
(* The download and mux workers are Python programs whose source is not    *)
(* among the TypeScript sources; they are modelled from the worker         *)
(* contract of the specification (section 6.3).                            *)
(***************************************************************************)
EXTENDS Integers, Sequences, FiniteSets, TLC

\* ------------------------------------------------------------------ bounds
MaxLog == 12          \* rows of a job's log up to which calls and workers act
MaxWorkerLog == 18    \* the same for a job no call but its creation touched
MaxBus == 2           \* pub/sub messages in flight
MaxList == 2          \* entries of a plain Redis list (download, mux)
MaxCount == 2         \* subscribe calls of one socket for one job that are counted
MaxRetries == 1       \* retry and resume calls accepted per job
MaxPublished == 3     \* log rows and messages in flight of a job fed by PublishEvent

\* The ids the model draws from: the ulid of a job, the id of a socket.
JobIds == {"j1"}
Sockets == {"s1", "s2"}
ClientSockets == {"c1", "c2", "c3"}   \* socket objects of the web client

\* ------------------------------------------------------- program constants
attempts == 3         \* defaultJobOptions.attempts
dubConcurrency == 2   \* config.concurrency of the dubbing worker
downloadConcurrency == 1   \* the download worker handles one job at a time
muxConcurrency == 1   \* the mux worker handles one job at a time
minFreeSpaceGb == 10   \* configured minimum of free space, in GB
FreeSpaces == {5, 15}   \* free space below and above the minimum
msPerSecond == 1000   \* CURRENT_TIMESTAMP has whole seconds, toISOString milliseconds
TickSteps == {500}   \* the clock advances in steps of half a second
MaxNow == 1500   \* the clock stops here
sessionLifetime == 604800000   \* expires_at of a session: 7 days after login
jwtExpiresIn == 604800000   \* exp of a token: '7d' after login
AuthTick == 302400000   \* the clock of the session model advances by half a lifetime
MaxAuthNow == 907200000   \* and stops here
Jtis == {"t1", "t2"}
MaxBuffer == 2   \* packets a socket that is not connected keeps for its connect
defaultPriority == 0   \* priority of a job created without one
Priorities == {0, 1}   \* priorities drawn for create and prioritize (of 0..10)
resumeEventLimit == 200   \* the rows the resume handler reads
maxPolls == 60        \* polls of performDubbing for the translation
logsBeforePolling == 6    \* publishLog calls of performDubbing before its loop

NULL == "NULL"

JobStatus ==
  {"QUEUED", "DOWNLOADING", "DOWNLOADED", "DUBBING", "DUBBED", "MUXING",
   "COMPLETE", "FAILED", "CANCELED"}

\* The three statuses the schema and the handlers call terminal.
TerminalStatus == {"COMPLETE", "FAILED", "CANCELED"}

\* Messages an Error thrown inside performDubbing can carry.
ErrorMessages ==
  {"Translation failed: timeout or no audio URL returned",
   "Failed to get video data from URL"}

\* isRetryableError: the lower-cased message contains one of the retryable
\* patterns; of the messages above only the first does ('timeout').
isRetryableError(message) ==
  message \in {"Translation failed: timeout or no audio URL returned"}

VARIABLES
  jobs,                    \* table jobs: id -> row (exists = FALSE: no row)
  media,                   \* table media: job id -> row
  events,                  \* table job_events: job id -> rows in insertion order
  files,                   \* filesystem: job id -> which artifacts exist
  bull,                    \* BullMQ queues: queue name -> job id -> entry
  downloadList,            \* Redis list 'download' (payloads, head first)
  muxList,                 \* Redis list 'mux'
  downloading,             \* payloads the download worker is processing, in dispatch order
  muxing,                  \* payloads the mux worker is processing, in dispatch order
  bus,                     \* Redis pub/sub messages not yet handled by the gateway
  issued,                  \* the job ids ulid() has returned (never twice the same)
  io,                      \* the socket.io server exists
  connected,               \* socket ids that have an entry in socketJobSubscriptions
  socketJobSubscriptions,  \* socket id -> set of job ids ({} when no entry)
  jobSocketSubscriptions,  \* job id -> set of socket ids ({} when no entry)
  rooms,                   \* socket.io rooms: socket id -> job rooms joined
  subCount,                \* history: subscribes minus unsubscribes per socket and job
  reply,                   \* the response of the last Control API call
  lastEmit,                \* history: the copies of the last forwarded message
  freeSpaceGb,             \* free space on the media volume, in GB
  now,                     \* the wall clock, in milliseconds
  sessions,                \* table sessions: jti -> row (exists = FALSE: no row)
  tokens,                  \* the JWTs the gateway has signed: jti -> token
  request,                 \* the request that last went through the authenticate hook
  socket,                  \* web client: this.socket (NULL or one of its socket objects)
  clientSockets,           \* web client: the socket objects io() has returned
  subscribedJobs,          \* web client: this.subscribedJobs
  subscriptionCounts,      \* web client: this.subscriptionCounts (0: no entry)
  ui                       \* web client: what App shows and how far its effects ran

dbVars == <<jobs, media, events>>
queueVars == <<bull, downloadList, muxList, downloading, muxing>>
socketVars == <<connected, socketJobSubscriptions, jobSocketSubscriptions, rooms, subCount>>
authVars == <<sessions, tokens, request>>
clientVars == <<socket, clientSockets, subscribedJobs, subscriptionCounts, ui>>
extVars == <<freeSpaceGb, now, authVars, clientVars>>
vars == <<jobs, media, events, files, bull, downloadList, muxList, downloading,
          muxing, bus, issued, io, connected, socketJobSubscriptions,
          jobSocketSubscriptions, rooms, subCount, reply, lastEmit, freeSpaceGb, now,
          sessions, tokens, request, socket, clientSockets, subscribedJobs,
          subscriptionCounts, ui>>

\* ------------------------------------------------------------ persistence
NoJob ==
  [exists |-> FALSE, status |-> "QUEUED", error |-> NULL, completedAt |-> FALSE,
   retries |-> 0, requestedDubbing |-> FALSE, priority |-> defaultPriority,
   createdAt |-> 0, updatedAt |-> 0]

NoMedia == [videoPath |-> FALSE, audioDubbedPath |-> FALSE]

NoSession == [exists |-> FALSE, expiresAt |-> 0, revoked |-> FALSE]

NoToken == [signedByGateway |-> FALSE, exp |-> 0]

\* A socket object of the web client that io() has not returned (or that was
\* closed): not connected, nothing buffered, unknown to the server.
NoSocket == [state |-> "closed", sendBuffer |-> <<>>, registered |-> {}]

NoRequest == [call |-> NULL, jti |-> NULL, authenticated |-> FALSE, at |-> 0]

NoFiles == [tempDir |-> FALSE, video |-> FALSE, dubbedAudio |-> FALSE]

\* new Date().toISOString(): the instant with its milliseconds.
toISOString(t) == t

\* SQLite's CURRENT_TIMESTAMP: the instant cut to whole seconds.
CURRENT_TIMESTAMP(t) == t - (t % msPerSecond)

\* Trigger update_jobs_updated_at: after every UPDATE of a jobs row its
\* updated_at is overwritten with CURRENT_TIMESTAMP.
update_jobs_updated_at(row) == [row EXCEPT !.updatedAt = CURRENT_TIMESTAMP(now)]

\* Trigger set_jobs_completed_at: completed_at is written when the status
\* moves from a non-terminal to a terminal value; nothing ever clears it.
set_jobs_completed_at(old, new, completedAt) ==
  IF new \in TerminalStatus /\ old \notin TerminalStatus THEN TRUE ELSE completedAt

\* JavaScript truthiness of the optional error argument.
Truthy(error) == error # NULL /\ error # ""

\* updateJobStatus(id, status, error?): one UPDATE; no row, no change.
updateJobStatus(js, id, status, error) ==
  IF ~js[id].exists THEN js
  ELSE [js EXCEPT ![id] =
          update_jobs_updated_at(
            [@ EXCEPT !.status = status,
                      !.error = IF Truthy(error) THEN error ELSE NULL,
                      !.completedAt = set_jobs_completed_at(js[id].status, status, @)])]

\* A row of job_events.
EventRow(event, from, to, message) ==
  [event |-> event, from |-> from, to |-> to, message |-> message]

\* logJobEvent: INSERT INTO job_events. The foreign key on job_id makes the
\* INSERT throw when the job row does not exist; callers test CanLog first.
CanLogUnchecked(js, id) == TRUE

CanLog(js, id) == js[id].exists

logJobEventDropped(ev, id, row) == ev

\* The row as inserted: ts is new Date().toISOString() of the insertion.
Stamped(row) ==
  [event |-> row.event, from |-> row.from, to |-> row.to, message |-> row.message,
   ts |-> toISOString(now)]

logJobEvent(ev, id, row) == [ev EXCEPT ![id] = Append(@, Stamped(row))]

\* updateMedia as called by the aggregator: only video_path can be written.
\* The variant writes both paths from the one file path of the message.
updateMediaBothPaths(md, js, id, filePath) ==
  IF js[id].exists /\ filePath
  THEN [md EXCEPT ![id].videoPath = TRUE, ![id].audioDubbedPath = TRUE]
  ELSE md

updateMedia(md, js, id, filePath) ==
  IF js[id].exists /\ filePath THEN [md EXCEPT ![id].videoPath = TRUE] ELSE md

\* Room for a Control API call to append n more rows to the job's log
\* (bound of the model).
LogRoom(id, n) ==
  \/ Len(events[id]) + Len(bus) + n <= MaxLog
  \/ Len(events[id]) > MaxWorkerLog

\* The retry rows of the job's log; retry and resume append one per call.
RetryRows(id) == {i \in 1..Len(events[id]) : events[id][i].event = "retry"}

\* Room for one more retry or resume call (bound of the model).
RetryRoom(id) == Cardinality(RetryRows(id)) < MaxRetries

\* ------------------------------------------------------------------ queues
NoEntry ==
  [state |-> "none", attemptsMade |-> 0, pc |-> "idle", thrown |-> NULL,
   failedReason |-> NULL, logged |-> 0]

QueueNames == {"download", "dub", "mux"}

\* queue.getJob(jobId) finds the entry in any state it is kept in.
getJob(b, q, id) == b[q][id].state # "none"

\* existingJob.remove() throws when the entry is locked by a worker.
RemoveThrows(b, q, id) == b[q][id].state = "active"

\* getJob + remove + add of enqueueDownload / enqueueDub / enqueueMux, when
\* remove does not throw: the entry is replaced by a fresh waiting entry.
QueueReAdd(b, q, id) ==
  [b EXCEPT ![q][id] = [NoEntry EXCEPT !.state = "waiting"]]

\* A payload pushed on a plain Redis list.
Payload(id, dubbing) == [jobId |-> id, requestedDubbing |-> dubbing]

\* An entry of the download queue: the payload and the priority enqueueDownload
\* was called with. The priority is an option of the BullMQ entry; the JSON
\* pushed on the plain list does not carry it.
DownloadEntry(id, dubbing, priority) ==
  [jobId |-> id, requestedDubbing |-> dubbing, priority |-> priority]

\* ------------------------------------------------------------------ pub/sub
Message(id, type, from, to, message, retryable, filePath) ==
  [jobId |-> id, type |-> type, from |-> from, to |-> to, message |-> message,
   retryable |-> retryable, filePath |-> filePath]

StateChangeMsg(id, from, to) == Message(id, "state_change", from, to, NULL, FALSE, FALSE)
LogMsg(id) == Message(id, "log", NULL, NULL, "info", FALSE, FALSE)
ProgressMsg(id) == Message(id, "progress", NULL, NULL, NULL, FALSE, FALSE)
ErrorMsg(id, message, retryable) == Message(id, "error", NULL, NULL, message, retryable, FALSE)
MetadataMsg(id) == Message(id, "metadata", NULL, NULL, NULL, FALSE, TRUE)

\* The rows up to which the workers of a run are followed: further when the
\* Control API was not called after the job's creation (bound of the model).
LogCap == IF reply.call \in {NULL, "create"} THEN MaxWorkerLog ELSE MaxLog

\* Room to publish n more messages, and for the aggregator to log them and
\* those in flight (bound of the model).
BusRoom(n) ==
  /\ Len(bus) + n <= MaxBus
  /\ \A id \in JobIds : \/ Len(events[id]) + Len(bus) + n <= LogCap
                        \/ Len(events[id]) > MaxWorkerLog

NoEmit == [jobId |-> NULL, type |-> NULL, copies |-> [s \in Sockets |-> 0],
           subscribed |-> {}, connected |-> {}]

\* A response of the Control API: the call, the code of the response and,
\* when the body is a job, the status it shows.
Reply(call, code, status) == [call |-> call, code |-> code, status |-> status]

NoReply == Reply(NULL, NULL, NULL)

\* ------------------------------------------------------------------- Init
Init ==
  /\ jobs = [j \in JobIds |-> NoJob]
  /\ media = [j \in JobIds |-> NoMedia]
  /\ events = [j \in JobIds |-> <<>>]
  /\ files = [j \in JobIds |-> NoFiles]
  /\ bull = [q \in QueueNames |-> [j \in JobIds |-> NoEntry]]
  /\ downloadList = <<>>
  /\ muxList = <<>>
  /\ downloading = <<>>
  /\ muxing = <<>>
  /\ bus = <<>>
  /\ issued = {}
  /\ io = FALSE
  /\ connected = {}
  /\ socketJobSubscriptions = [s \in Sockets |-> {}]
  /\ jobSocketSubscriptions = [j \in JobIds |-> {}]
  /\ rooms = [s \in Sockets |-> {}]
  /\ subCount = [s \in Sockets |-> [j \in JobIds |-> 0]]
  /\ reply = NoReply
  /\ lastEmit = NoEmit
  /\ freeSpaceGb = 15
  /\ now = 0
  /\ sessions = [t \in Jtis |-> NoSession]
  /\ tokens = [t \in Jtis |-> NoToken]
  /\ request = NoRequest
  /\ socket = NULL
  /\ clientSockets = [s \in ClientSockets |-> NoSocket]
  /\ subscribedJobs = {}
  /\ subscriptionCounts = [j \in JobIds |-> 0]
  /\ ui = "LoginForm"

\* ---------------------------------------------------------------- cleanup
\* cleanupJobFiles(job, media): removes incomplete/{id}/ (the dubbed audio
\* lives in it) and the file at media.videoPath when that path is recorded.
cleanupJobFiles(f, m) ==
  [tempDir |-> FALSE, dubbedAudio |-> FALSE,
   video |-> IF m.videoPath THEN FALSE ELSE f.video]

\* ------------------------------------------------------------ Control API
\* A handler that returns an error response before it wrote anything, with
\* a variant that answers 200 instead.
RejectedAnswersOk(call, code) ==
  /\ reply' = Reply(call, "OK", NULL)
  /\ UNCHANGED <<dbVars, files, queueVars, bus, issued, io, socketVars, extVars, lastEmit>>

Rejected(call, code) ==
  /\ reply' = Reply(call, code, NULL)
  /\ UNCHANGED <<dbVars, files, queueVars, bus, issued, io, socketVars, extVars, lastEmit>>

\* getJob + remove of an enqueue function throws.
enqueueThrows(q, id) == getJob(bull, q, id) /\ RemoveThrows(bull, q, id)

\* enqueueDownload: replace the BullMQ entry and push the payload on the
\* plain list as well; when remove throws nothing is added or pushed. The
\* variant leaves the rpush out.
enqueueDownloadBullOnly(id, dubbing, priority) ==
  /\ bull' = IF enqueueThrows("download", id) THEN bull
             ELSE QueueReAdd(bull, "download", id)
  /\ UNCHANGED downloadList

enqueueDownload(id, dubbing, priority) ==
  IF enqueueThrows("download", id)
  THEN UNCHANGED <<bull, downloadList>>
  ELSE /\ bull' = QueueReAdd(bull, "download", id)
       /\ downloadList' = Append(downloadList, DownloadEntry(id, dubbing, priority))

\* enqueueDub / enqueueMux: replace the BullMQ entry only.
enqueueBull(q, id) ==
  IF enqueueThrows(q, id)
  THEN UNCHANGED bull
  ELSE bull' = QueueReAdd(bull, q, id)

\* The response of a handler whose enqueue call is the last thing that can
\* throw: the re-read job, or 500 from the handler's catch.
EnqueueReply(call, q, id, status) ==
  IF enqueueThrows(q, id)
  THEN Reply(call, "INTERNAL_ERROR", NULL)
  ELSE Reply(call, "OK", status)

\* POST /jobs: createJobWithEvents (job row, media row and 'started' event
\* in one transaction), the cookies file, enqueueDownload.
CreateJob(dubbing, cookies, priority) ==
  /\ Len(downloadList) < MaxList
  /\ \E id \in JobIds \ issued :
       /\ jobs' = [jobs EXCEPT ![id] =
                     [exists |-> TRUE, status |-> "QUEUED", error |-> NULL,
                      completedAt |-> FALSE, retries |-> 0,
                      requestedDubbing |-> dubbing, priority |-> priority,
                      createdAt |-> toISOString(now),
                      updatedAt |-> toISOString(now)]]
       /\ media' = [media EXCEPT ![id] = NoMedia]
       /\ events' = [events EXCEPT ![id] = <<Stamped(EventRow("started", NULL, NULL, NULL))>>]
       /\ files' = IF cookies THEN [files EXCEPT ![id].tempDir = TRUE] ELSE files
       /\ enqueueDownload(id, dubbing, priority)
       /\ issued' = issued \cup {id}
  /\ reply' = Reply("create", "OK", "QUEUED")
  /\ UNCHANGED <<downloading, muxing, muxList, bus, io, socketVars, extVars, lastEmit>>

\* The state check of both cancel handlers, with variants that let a
\* canceled job, or any terminal job, through.
CancelAllowedWhenCanceled(status) == status \notin {"COMPLETE", "FAILED"}

CancelAllowedAnyState(status) == TRUE

CancelAllowed(status) == status \notin TerminalStatus

\* POST /jobs/:id/control with action 'cancel'.
ControlCancel(id) ==
  /\ LogRoom(id, 0)
  /\ IF ~jobs[id].exists THEN Rejected("control", "NOT_FOUND")
     ELSE IF ~CancelAllowed(jobs[id].status) THEN Rejected("control", "INVALID_STATE")
     ELSE
       /\ LogRoom(id, 1)
       /\ jobs' = updateJobStatus(jobs, id, "CANCELED", NULL)
       /\ events' = logJobEvent(events, id,
                      EventRow("state_change", jobs[id].status, "CANCELED", NULL))
       /\ reply' = Reply("control", "OK", "CANCELED")
       /\ UNCHANGED <<media, files, queueVars, bus, issued, io, socketVars, extVars, lastEmit>>

\* updateJobPriority: UPDATE jobs SET priority.
updateJobPriority(js, id, priority) ==
  IF ~js[id].exists THEN js
  ELSE [js EXCEPT ![id] = update_jobs_updated_at([@ EXCEPT !.priority = priority])]

\* POST /jobs/:id/control with action 'prioritize': in any state of the job.
ControlPrioritize(id, priority) ==
  /\ LogRoom(id, 0)
  /\ IF ~jobs[id].exists THEN Rejected("control", "NOT_FOUND")
     ELSE
       /\ LogRoom(id, 1)
       /\ jobs' = updateJobPriority(jobs, id, priority)
       /\ events' = logJobEvent(events, id, EventRow("log", NULL, NULL, "info"))
       /\ reply' = Reply("control", "OK", jobs[id].status)
       /\ UNCHANGED <<media, files, queueVars, bus, issued, io, socketVars, extVars, lastEmit>>

\* POST /jobs/:id/cancel.
CancelJob(id) ==
  /\ LogRoom(id, 0)
  /\ IF ~jobs[id].exists THEN Rejected("cancel", "NOT_FOUND")
     ELSE IF ~CancelAllowed(jobs[id].status) THEN Rejected("cancel", "INVALID_STATE")
     ELSE
       /\ LogRoom(id, 2)
       /\ jobs' = updateJobStatus(jobs, id, "CANCELED", NULL)
       /\ events' = logJobEvent(
                      logJobEvent(events, id,
                        EventRow("state_change", jobs[id].status, "CANCELED", NULL)),
                      id, EventRow("log", NULL, NULL, "info"))
       /\ files' = [files EXCEPT ![id] = cleanupJobFiles(@, media[id])]
       /\ reply' = Reply("cancel", "OK", "CANCELED")
       /\ UNCHANGED <<media, queueVars, bus, issued, io, socketVars, extVars, lastEmit>>

\* DELETE /jobs/:id: cleanup, then the row; media and events go by cascade.
DeleteJob(id) ==
  /\ LogRoom(id, 0)
  /\ IF ~jobs[id].exists THEN Rejected("delete", "NOT_FOUND")
     ELSE
       /\ files' = [files EXCEPT ![id] = cleanupJobFiles(@, media[id])]
       /\ jobs' = [jobs EXCEPT ![id] = NoJob]
       /\ media' = [media EXCEPT ![id] = NoMedia]
       /\ events' = [events EXCEPT ![id] = <<>>]
       /\ reply' = Reply("delete", "OK", NULL)
       /\ UNCHANGED <<queueVars, bus, issued, io, socketVars, extVars, lastEmit>>

\* The state check of the retry handler, with a variant that lets every
\* terminal job through.
RetryAllowedAnyTerminal(status) == status \in TerminalStatus

RetryAllowed(status) == status \in {"FAILED", "CANCELED"}

\* POST /jobs/:id/retry.
RetryJob(id) ==
  /\ LogRoom(id, 0)
  /\ IF ~jobs[id].exists THEN Rejected("retry", "NOT_FOUND")
     ELSE IF ~RetryAllowed(jobs[id].status) THEN Rejected("retry", "INVALID_STATE")
     ELSE
       /\ LogRoom(id, 2)
       /\ RetryRoom(id)
       /\ Len(downloadList) < MaxList
       /\ jobs' = updateJobStatus(jobs, id, "QUEUED", NULL)
       /\ events' = logJobEvent(
                      logJobEvent(events, id,
                        EventRow("retry", jobs[id].status, NULL, NULL)),
                      id, EventRow("state_change", jobs[id].status, "QUEUED", NULL))
       /\ enqueueDownload(id, jobs[id].requestedDubbing, jobs[id].priority)
       /\ reply' = EnqueueReply("retry", "download", id, "QUEUED")
       /\ UNCHANGED <<media, files, muxList, downloading, muxing, bus, issued, io,
                      socketVars, extVars, lastEmit>>

\* ORDER BY ts DESC as SQLite answers it for job_events: the backward scan of
\* the index on (job_id, ts), in which rows of equal ts come latest insert
\* first. The variant returns rows of equal ts in insertion order.
NewerTiesInInsertOrder(rows, i, k) ==
  \/ rows[i].ts > rows[k].ts
  \/ rows[i].ts = rows[k].ts /\ i < k

Newer(rows, i, k) ==
  \/ rows[i].ts > rows[k].ts
  \/ rows[i].ts = rows[k].ts /\ i > k

\* The position in the table of element 0 of getJobEvents with offset 0.
ElementZero(rows) ==
  CHOOSE i \in 1..Len(rows) : \A k \in (1..Len(rows)) \ {i} : Newer(rows, i, k)

\* getJobEvents(id, {limit}): the newest `limit` rows of the job.
getJobEvents(ev, id, limit) ==
  LET n == Len(ev[id]) IN
  IF n <= limit THEN ev[id] ELSE SubSeq(ev[id], n - limit + 1, n)

\* The states the resume handler finds reached in the rows it reads.
reachedStates(rows) ==
  {rows[i].to : i \in {k \in 1..Len(rows) : rows[k].event = "state_change"}}

\* The state check of the resume handler, with a variant that takes the
\* check of the retry handler.
ResumeAllowedLikeRetry(status) == status \in {"FAILED", "CANCELED"}

ResumeAllowed(status) == status = "FAILED"

\* What the resume handler finds: the stages completed according to the log
\* and the files recorded on the media row that exist on disk.
downloadCompleted(id) ==
  "DOWNLOADED" \in reachedStates(getJobEvents(events, id, resumeEventLimit))

dubbingCompleted(id) ==
  "DUBBED" \in reachedStates(getJobEvents(events, id, resumeEventLimit))

hasVideo(id) == media[id].videoPath /\ files[id].video

hasDubbedAudio(id) == media[id].audioDubbedPath /\ files[id].dubbedAudio

\* POST /jobs/:id/resume.
ResumeJob(id) ==
  /\ LogRoom(id, 0)
  /\ IF ~jobs[id].exists THEN Rejected("resume", "NOT_FOUND")
     ELSE IF ~ResumeAllowed(jobs[id].status) THEN Rejected("resume", "INVALID_STATE")
     ELSE IF dubbingCompleted(id) /\ hasVideo(id) /\ hasDubbedAudio(id)
     THEN /\ LogRoom(id, 2)
          /\ RetryRoom(id)
          /\ jobs' = updateJobStatus(jobs, id, "DUBBED", NULL)
          /\ events' = logJobEvent(
               logJobEvent(events, id, EventRow("retry", "FAILED", "muxing", NULL)),
               id, EventRow("state_change", "FAILED", "DUBBED", NULL))
          /\ enqueueBull("mux", id)
          /\ reply' = EnqueueReply("resume", "mux", id, "DUBBED")
          /\ UNCHANGED <<media, files, downloadList, muxList, downloading, muxing,
                         bus, issued, io, socketVars, extVars, lastEmit>>
     ELSE IF downloadCompleted(id) /\ hasVideo(id) /\ jobs[id].requestedDubbing
     THEN /\ LogRoom(id, 2)
          /\ RetryRoom(id)
          /\ jobs' = updateJobStatus(jobs, id, "DOWNLOADED", NULL)
          /\ events' = logJobEvent(
               logJobEvent(events, id, EventRow("retry", "FAILED", "dubbing", NULL)),
               id, EventRow("state_change", "FAILED", "DOWNLOADED", NULL))
          /\ enqueueBull("dub", id)
          /\ reply' = EnqueueReply("resume", "dub", id, "DOWNLOADED")
          /\ UNCHANGED <<media, files, downloadList, muxList, downloading, muxing,
                         bus, issued, io, socketVars, extVars, lastEmit>>
     ELSE Rejected("resume", "CANNOT_RESUME")

\* ----------------------------------------------------------- dubbing worker
\* Entries of the dub queue a worker holds.
DubActive == {id \in JobIds : bull["dub"][id].state = "active"}

\* The Worker picks a waiting entry; the processor publishes DOWNLOADED ->
\* DUBBING and a log line, then calls performDubbing.
DubStart(id) ==
  /\ bull["dub"][id].state = "waiting"
  /\ Cardinality(DubActive) < dubConcurrency
  /\ BusRoom(2)
  /\ bull' = [bull EXCEPT !["dub"][id].state = "active",
                          !["dub"][id].pc = "performDubbing"]
  /\ bus' = bus \o <<StateChangeMsg(id, "DOWNLOADED", "DUBBING"), LogMsg(id)>>
  /\ UNCHANGED <<dbVars, files, downloadList, muxList, downloading, muxing,
                 issued, reply, io, socketVars, extVars, lastEmit>>

\* performDubbing returns: its log and progress messages (one of each stands
\* for the run of them) and the dubbed audio written under the temp dir.
DubPerformed(id) ==
  /\ bull["dub"][id].state = "active"
  /\ bull["dub"][id].pc = "performDubbing"
  /\ BusRoom(2)
  /\ bus' = bus \o <<LogMsg(id), ProgressMsg(id)>>
  /\ files' = [files EXCEPT ![id].tempDir = TRUE, ![id].dubbedAudio = TRUE]
  /\ bull' = [bull EXCEPT !["dub"][id].pc = "performed"]
  /\ UNCHANGED <<dbVars, downloadList, muxList, downloading, muxing, issued, reply, io,
                 socketVars, extVars, lastEmit>>

\* After performDubbing: DUBBING -> DUBBED, a log line, enqueueMuxJob (rpush
\* on the 'mux' list); the processor returns and the entry is completed.
DubComplete(id) ==
  /\ bull["dub"][id].state = "active"
  /\ bull["dub"][id].pc = "performed"
  /\ BusRoom(2)
  /\ Len(muxList) < MaxList
  /\ bus' = bus \o <<StateChangeMsg(id, "DUBBING", "DUBBED"), LogMsg(id)>>
  /\ muxList' = Append(muxList, Payload(id, TRUE))
  /\ bull' = [bull EXCEPT !["dub"][id].state = "completed",
                          !["dub"][id].pc = "idle"]
  /\ UNCHANGED <<dbVars, files, downloadList, downloading, muxing, issued, reply, io,
                 socketVars, extVars, lastEmit>>

\* performDubbing publishes one of its log lines: those before the polling
\* loop, then one per poll (the progress message next to it leaves no row).
DubPerformLog(id) ==
  /\ bull["dub"][id].state = "active"
  /\ bull["dub"][id].pc = "performDubbing"
  /\ bull["dub"][id].logged < logsBeforePolling + maxPolls
  /\ Len(bus) < MaxBus
  /\ bus' = Append(bus, LogMsg(id))
  /\ bull' = [bull EXCEPT !["dub"][id].logged = @ + 1]
  /\ UNCHANGED <<dbVars, files, downloadList, muxList, downloading, muxing,
                 issued, reply, io, socketVars, extVars, lastEmit>>

\* The translation is not ready after the last poll.
DubPollsExhausted(id) ==
  bull["dub"][id].logged = logsBeforePolling + maxPolls

\* performDubbing throws: its catch publishes the error with the retryable
\* flag isRetryableError gives the message, and rethrows.
DubPerformThrows(id, message) ==
  /\ bull["dub"][id].state = "active"
  /\ bull["dub"][id].pc = "performDubbing"
  /\ BusRoom(1)
  /\ bus' = Append(bus, ErrorMsg(id, message, isRetryableError(message)))
  /\ bull' = [bull EXCEPT !["dub"][id].pc = "catch",
                          !["dub"][id].thrown = message]
  /\ UNCHANGED <<dbVars, files, downloadList, muxList, downloading, muxing,
                 issued, reply, io, socketVars, extVars, lastEmit>>

\* What the processor's catch block publishes for the error it caught.
WorkerCatchMessages(id, message) ==
  <<ErrorMsg(id, message, FALSE), StateChangeMsg(id, "DUBBING", "FAILED")>>

\* BullMQ after a processor threw: another attempt after the backoff delay
\* while attempts remain, else the entry is failed.
AfterThrow(entry) ==
  [entry EXCEPT !.attemptsMade = @ + 1,
                !.state = IF entry.attemptsMade + 1 < attempts THEN "delayed" ELSE "failed",
                !.pc = "idle",
                !.thrown = NULL,
                !.failedReason = entry.thrown,
                !.logged = 0]

\* The processor's catch block, and the rethrow to BullMQ.
DubCatch(id) ==
  /\ bull["dub"][id].state = "active"
  /\ bull["dub"][id].pc = "catch"
  /\ BusRoom(2)
  /\ bus' = bus \o WorkerCatchMessages(id, bull["dub"][id].thrown)
  /\ bull' = [bull EXCEPT !["dub"][id] = AfterThrow(@)]
  /\ UNCHANGED <<dbVars, files, downloadList, muxList, downloading, muxing,
                 issued, reply, io, socketVars, extVars, lastEmit>>

\* The backoff delay of a delayed entry elapses.
DubBackoffElapsed(id) ==
  /\ bull["dub"][id].state = "delayed"
  /\ bull' = [bull EXCEPT !["dub"][id].state = "waiting"]
  /\ UNCHANGED <<dbVars, files, downloadList, muxList, downloading, muxing, bus,
                 issued, reply, io, socketVars, extVars, lastEmit>>

\* ------------------------------------------ download and mux workers (spec)
\* The payloads a worker is processing, and the rest once it is done with p.
InFlight(processing) == {processing[i] : i \in 1..Len(processing)}

Finished(processing, p) ==
  LET i == CHOOSE k \in 1..Len(processing) : processing[k] = p
  IN  SubSeq(processing, 1, i - 1) \o SubSeq(processing, i + 1, Len(processing))

SlotAlwaysFree == TRUE

\* The download worker pops the next payload only when it has a free slot.
DownloadSlotFree == Len(downloading) < downloadConcurrency

\* Likewise the mux worker.
MuxSlotFree == Len(muxing) < muxConcurrency

\* The download worker takes the head of the 'download' list and announces
\* QUEUED -> DOWNLOADING; it writes under incomplete/{id}/.
DownloadStart ==
  /\ downloadList # <<>>
  /\ DownloadSlotFree
  /\ BusRoom(1)
  /\ LET p == Head(downloadList) IN
       /\ downloading' = Append(downloading, p)
       /\ bus' = Append(bus, StateChangeMsg(p.jobId, "QUEUED", "DOWNLOADING"))
       /\ files' = [files EXCEPT ![p.jobId].tempDir = TRUE]
  /\ downloadList' = Tail(downloadList)
  /\ UNCHANGED <<dbVars, bull, muxList, muxing, issued, reply, io, socketVars, extVars, lastEmit>>

\* Idempotent enqueue of the next stage on the dub queue.
EnqueueNextDub(b, id) ==
  IF b["dub"][id].state = "active" THEN b ELSE QueueReAdd(b, "dub", id)

\* The download succeeds: the final file exists, its path is published as
\* metadata, DOWNLOADING -> DOWNLOADED, and the next stage is enqueued.
DownloadSucceed(p) ==
  /\ p \in InFlight(downloading)
  /\ BusRoom(2)
  /\ IF p.requestedDubbing THEN TRUE ELSE Len(muxList) < MaxList
  /\ downloading' = Finished(downloading, p)
  /\ files' = [files EXCEPT ![p.jobId].video = TRUE]
  /\ bus' = bus \o <<MetadataMsg(p.jobId),
                     StateChangeMsg(p.jobId, "DOWNLOADING", "DOWNLOADED")>>
  /\ IF p.requestedDubbing
     THEN /\ bull' = EnqueueNextDub(bull, p.jobId)
          /\ UNCHANGED muxList
     ELSE /\ muxList' = Append(muxList, Payload(p.jobId, p.requestedDubbing))
          /\ UNCHANGED bull
  /\ UNCHANGED <<dbVars, downloadList, muxing, issued, reply, io, socketVars, extVars, lastEmit>>

\* The download fails for good: a non-retryable error event.
DownloadFail(p, message) ==
  /\ p \in InFlight(downloading)
  /\ BusRoom(1)
  /\ downloading' = Finished(downloading, p)
  /\ bus' = Append(bus, ErrorMsg(p.jobId, message, FALSE))
  /\ UNCHANGED <<dbVars, files, bull, downloadList, muxList, muxing, issued, reply, io,
                 socketVars, extVars, lastEmit>>

\* The mux worker takes the head of the 'mux' list and announces MUXING.
MuxStart ==
  /\ muxList # <<>>
  /\ MuxSlotFree
  /\ BusRoom(1)
  /\ LET p == Head(muxList) IN
       /\ muxing' = Append(muxing, p)
       /\ bus' = Append(bus, StateChangeMsg(p.jobId,
                   IF p.requestedDubbing THEN "DUBBED" ELSE "DOWNLOADED", "MUXING"))
  /\ muxList' = Tail(muxList)
  /\ UNCHANGED <<dbVars, files, bull, downloadList, downloading, issued, reply, io,
                 socketVars, extVars, lastEmit>>

\* The mux fails for good: a non-retryable error event.
MuxFail(p, message) ==
  /\ p \in InFlight(muxing)
  /\ BusRoom(1)
  /\ muxing' = Finished(muxing, p)
  /\ bus' = Append(bus, ErrorMsg(p.jobId, message, FALSE))
  /\ UNCHANGED <<dbVars, files, bull, downloadList, muxList, downloading, issued,
                 reply, io, socketVars, extVars, lastEmit>>

\* The mux succeeds: MUXING -> COMPLETE.
MuxSucceed(p) ==
  /\ p \in InFlight(muxing)
  /\ BusRoom(1)
  /\ muxing' = Finished(muxing, p)
  /\ bus' = Append(bus, StateChangeMsg(p.jobId, "MUXING", "COMPLETE"))
  /\ UNCHANGED <<dbVars, files, bull, downloadList, muxList, downloading, issued, reply,
                 io, socketVars, extVars, lastEmit>>

\* ------------------------------------------------------- event aggregator
\* io.to(`job:${jobId}`).emit: one copy to every socket in the job's room.
RoomCopies(id, s) == IF id \in rooms[s] THEN 1 ELSE 0

\* io.emit: one copy to every connected socket.
BroadcastCopies(s) == IF s \in connected THEN 1 ELSE 0

\* The copies socket s gets of a message of the given type for job id.
EmitCopies(type, id, s) ==
  CASE type = "state_change" -> RoomCopies(id, s) + BroadcastCopies(s)
    [] type \in {"progress", "log", "error"} -> RoomCopies(id, s)
    [] OTHER -> 0

\* The forwarding step of handleRedisEvent, recorded in lastEmit when there
\* is a socket to forward to.
Emit(m) ==
  lastEmit' =
    IF io /\ connected # {}
    THEN [jobId |-> m.jobId, type |-> m.type,
          copies |-> [s \in Sockets |-> EmitCopies(m.type, m.jobId, s)],
          subscribed |-> {s \in connected : m.jobId \in socketJobSubscriptions[s]},
          connected |-> connected]
    ELSE lastEmit

\* publishEvent of a worker process, for any message a worker can build:
\* the feed of the aggregator when the workers themselves are left out.
WorkerMessages(id) ==
  {ProgressMsg(id), LogMsg(id), MetadataMsg(id),
   StateChangeMsg(id, "QUEUED", "DOWNLOADING"),
   ErrorMsg(id, "Translation failed: timeout or no audio URL returned", TRUE),
   ErrorMsg(id, "Failed to get video data from URL", FALSE)}

PublishEvent(m) ==
  /\ BusRoom(1)
  /\ Len(events[m.jobId]) + Len(bus) < MaxPublished
  /\ bus' = Append(bus, m)
  /\ UNCHANGED <<dbVars, files, queueVars, issued, reply, io, socketVars, extVars, lastEmit>>

\* The job row after the aggregator's 'state_change' case.
ApplyStateChange(js, m) == updateJobStatus(js, m.jobId, m.to, NULL)

\* The job row after the aggregator's 'error' case, with a variant that
\* leaves the job as it is.
ApplyErrorSkipped(js, m) == js

ApplyError(js, m) ==
  IF ~m.retryable THEN updateJobStatus(js, m.jobId, "FAILED", m.message) ELSE js

\* subscriber.on('message') calling handleRedisEvent on the oldest message;
\* an exception of the handler (the INSERT for a job that has no row) is
\* caught by the listener and ends the handling of that message.
HandleRedisEvent ==
  /\ bus # <<>>
  /\ LET m == Head(bus)
         id == m.jobId
     IN
       CASE m.type = "progress" ->
              /\ Emit(m)
              /\ UNCHANGED dbVars
         [] m.type = "state_change" ->
              /\ jobs' = ApplyStateChange(jobs, m)
              /\ IF CanLog(jobs, id)
                 THEN /\ events' = logJobEvent(events, id,
                                     EventRow("state_change", m.from, m.to, NULL))
                      /\ Emit(m)
                 ELSE UNCHANGED <<events, lastEmit>>
              /\ UNCHANGED media
         [] m.type = "log" ->
              /\ IF CanLog(jobs, id)
                 THEN /\ events' = logJobEvent(events, id,
                                     EventRow("log", NULL, NULL, m.message))
                      /\ Emit(m)
                 ELSE UNCHANGED <<events, lastEmit>>
              /\ UNCHANGED <<jobs, media>>
         [] m.type = "error" ->
              /\ IF CanLog(jobs, id)
                 THEN /\ events' = logJobEvent(events, id,
                                     EventRow("error", NULL, NULL, m.message))
                      /\ jobs' = ApplyError(jobs, m)
                      /\ Emit(m)
                 ELSE UNCHANGED <<jobs, events, lastEmit>>
              /\ UNCHANGED media
         [] m.type = "metadata" ->
              /\ media' = updateMedia(media, jobs, id, m.filePath)
              /\ UNCHANGED <<jobs, events, lastEmit>>
  /\ bus' = Tail(bus)
  /\ UNCHANGED <<files, queueVars, issued, reply, io, socketVars, extVars>>

\* ---------------------------------------------------- subscription gateway
\* initializeWebSocket, called once the HTTP server listens.
InitializeWebSocket ==
  /\ ~io
  /\ io' = TRUE
  /\ UNCHANGED <<dbVars, files, queueVars, bus, issued, reply, socketVars, extVars, lastEmit>>

\* io.on('connection'): the socket gets an empty subscription set.
Connection(s) ==
  /\ io
  /\ s \notin connected
  /\ connected' = connected \cup {s}
  /\ socketJobSubscriptions' = [socketJobSubscriptions EXCEPT ![s] = {}]
  /\ UNCHANGED <<dbVars, files, queueVars, bus, issued, reply, io,
                 jobSocketSubscriptions, rooms, subCount, lastEmit, extVars>>

\* The rooms of socket s after socket.on('subscribe') for jobIds.
SubscribeRooms(s, jobIds) == rooms[s] \cup jobIds

\* socket.on('subscribe', jobIds).
Subscribe(s, jobIds) ==
  /\ s \in connected
  /\ \A j \in jobIds : subCount[s][j] < MaxCount
  /\ socketJobSubscriptions' = [socketJobSubscriptions EXCEPT ![s] = @ \cup jobIds]
  /\ jobSocketSubscriptions' =
       [j \in JobIds |-> IF j \in jobIds THEN jobSocketSubscriptions[j] \cup {s}
                         ELSE jobSocketSubscriptions[j]]
  /\ rooms' = [rooms EXCEPT ![s] = SubscribeRooms(s, jobIds)]
  /\ subCount' = [subCount EXCEPT ![s] =
                    [j \in JobIds |-> IF j \in jobIds THEN @[j] + 1 ELSE @[j]]]
  /\ UNCHANGED <<dbVars, files, queueVars, bus, issued, reply, io, connected, lastEmit, extVars>>

\* A variant of the next definition in which the socket never leaves a room.
UnsubscribeRoomsKept(s, jobIds) == rooms[s]

\* The rooms of socket s after socket.on('unsubscribe') for jobIds.
UnsubscribeRooms(s, jobIds) == rooms[s] \ jobIds

\* socket.on('unsubscribe', jobIds).
Unsubscribe(s, jobIds) ==
  /\ s \in connected
  /\ socketJobSubscriptions' = [socketJobSubscriptions EXCEPT ![s] = @ \ jobIds]
  /\ jobSocketSubscriptions' =
       [j \in JobIds |-> IF j \in jobIds THEN jobSocketSubscriptions[j] \ {s}
                         ELSE jobSocketSubscriptions[j]]
  /\ rooms' = [rooms EXCEPT ![s] = UnsubscribeRooms(s, jobIds)]
  /\ subCount' = [subCount EXCEPT ![s] =
                    [j \in JobIds |-> IF j \in jobIds /\ @[j] > 0 THEN @[j] - 1 ELSE @[j]]]
  /\ UNCHANGED <<dbVars, files, queueVars, bus, issued, reply, io, connected, lastEmit, extVars>>

\* socket.on('disconnect'): the subscriptions of the socket are dropped;
\* socket.io itself takes a disconnected socket out of its rooms. The
\* variant drops the socket's own entry only.
DisconnectOwnEntryOnly(s) ==
  /\ s \in connected
  /\ connected' = connected \ {s}
  /\ socketJobSubscriptions' = [socketJobSubscriptions EXCEPT ![s] = {}]
  /\ rooms' = [rooms EXCEPT ![s] = {}]
  /\ subCount' = [subCount EXCEPT ![s] = [j \in JobIds |-> 0]]
  /\ UNCHANGED <<dbVars, files, queueVars, bus, issued, reply, io, lastEmit, extVars,
                 jobSocketSubscriptions>>

Disconnect(s) ==
  /\ s \in connected
  /\ connected' = connected \ {s}
  /\ jobSocketSubscriptions' =
       [j \in JobIds |-> IF j \in socketJobSubscriptions[s]
                         THEN jobSocketSubscriptions[j] \ {s}
                         ELSE jobSocketSubscriptions[j]]
  /\ socketJobSubscriptions' = [socketJobSubscriptions EXCEPT ![s] = {}]
  /\ rooms' = [rooms EXCEPT ![s] = {}]
  /\ subCount' = [subCount EXCEPT ![s] = [j \in JobIds |-> 0]]
  /\ UNCHANGED <<dbVars, files, queueVars, bus, issued, reply, io, lastEmit, extVars>>

\* ------------------------------------------------------------ specification
\* The pipeline: Control API, workers and aggregator.
Next ==
  \/ \E dubbing \in BOOLEAN, cookies \in BOOLEAN : CreateJob(dubbing, cookies, defaultPriority)
  \/ \E id \in JobIds : ControlCancel(id)
  \/ \E id \in JobIds : CancelJob(id)
  \/ \E id \in JobIds : DeleteJob(id)
  \/ \E id \in JobIds : RetryJob(id)
  \/ \E id \in JobIds : ResumeJob(id)
  \/ DownloadStart
  \/ \E p \in InFlight(downloading) : DownloadSucceed(p)
  \/ \E p \in InFlight(downloading) : DownloadFail(p, "Unsupported URL")
  \/ \E id \in JobIds : DubStart(id)
  \/ \E id \in JobIds : DubPerformed(id)
  \/ \E id \in JobIds : DubComplete(id)
  \/ \E id \in JobIds, message \in ErrorMessages : DubPerformThrows(id, message)
  \/ \E id \in JobIds : DubCatch(id)
  \/ \E id \in JobIds : DubBackoffElapsed(id)
  \/ MuxStart
  \/ \E p \in InFlight(muxing) : MuxSucceed(p)
  \/ \E p \in InFlight(muxing) : MuxFail(p, "FFmpeg failed")
  \/ HandleRedisEvent
  \/ InitializeWebSocket

Spec == Init /\ [][Next]_vars

\* The subscription gateway: sockets, any worker's messages, the aggregator.
NextSub ==
  \/ \E s \in Sockets : Connection(s)
  \/ \E s \in Sockets, jobIds \in SUBSET JobIds \ {{}} : Subscribe(s, jobIds)
  \/ \E s \in Sockets, jobIds \in SUBSET JobIds \ {{}} : Unsubscribe(s, jobIds)
  \/ \E s \in Sockets : Disconnect(s)
  \/ CreateJob(FALSE, FALSE, defaultPriority)
  \/ \E id \in JobIds : \E m \in WorkerMessages(id) : PublishEvent(m)
  \/ HandleRedisEvent
  \/ InitializeWebSocket

SpecSub == Init /\ [][NextSub]_vars

\* A job whose dubbing polls for the translation until the polls are
\* exhausted, attempt after attempt, and the resume calls for it.
NextHistory ==
  \/ \E cookies \in BOOLEAN : CreateJob(TRUE, cookies, defaultPriority)
  \/ DownloadStart
  \/ \E p \in InFlight(downloading) : DownloadSucceed(p)
  \/ \E id \in JobIds : DubStart(id)
  \/ \E id \in JobIds : DubPerformLog(id)
  \/ \E id \in JobIds :
       /\ DubPollsExhausted(id)
       /\ DubPerformThrows(id, "Translation failed: timeout or no audio URL returned")
  \/ \E id \in JobIds : DubCatch(id)
  \/ \E id \in JobIds : DubBackoffElapsed(id)
  \/ HandleRedisEvent
  \/ \E id \in JobIds : ResumeJob(id)

SpecHistory == Init /\ [][NextHistory]_vars

\* The pipeline while the gateway's listener runs: it handles every message
\* Redis delivers. No socket connects here, so the start of the websocket
\* server is left out.
NextLive ==
  \/ \E dubbing \in BOOLEAN, cookies \in BOOLEAN : CreateJob(dubbing, cookies, defaultPriority)
  \/ \E id \in JobIds : ControlCancel(id)
  \/ \E id \in JobIds : CancelJob(id)
  \/ \E id \in JobIds : DeleteJob(id)
  \/ \E id \in JobIds : RetryJob(id)
  \/ \E id \in JobIds : ResumeJob(id)
  \/ DownloadStart
  \/ \E p \in InFlight(downloading) : DownloadSucceed(p)
  \/ \E p \in InFlight(downloading) : DownloadFail(p, "Unsupported URL")
  \/ \E id \in JobIds : DubStart(id)
  \/ \E id \in JobIds : DubPerformed(id)
  \/ \E id \in JobIds : DubComplete(id)
  \/ \E id \in JobIds, message \in ErrorMessages : DubPerformThrows(id, message)
  \/ \E id \in JobIds : DubCatch(id)
  \/ \E id \in JobIds : DubBackoffElapsed(id)
  \/ MuxStart
  \/ \E p \in InFlight(muxing) : MuxSucceed(p)
  \/ \E p \in InFlight(muxing) : MuxFail(p, "FFmpeg failed")
  \/ HandleRedisEvent

\* Jobs created with a priority and re-prioritized: the download queue with
\* entries of different priorities. (Spec keeps every job at the default.)
NextPriority ==
  \/ \E priority \in Priorities : CreateJob(FALSE, FALSE, priority)
  \/ \E id \in JobIds : ControlCancel(id)
  \/ \E id \in JobIds, priority \in Priorities : ControlPrioritize(id, priority)
  \/ \E id \in JobIds : RetryJob(id)
  \/ DownloadStart
  \/ \E p \in InFlight(downloading) : DownloadFail(p, "Unsupported URL")
  \/ HandleRedisEvent

SpecPriority == Init /\ [][NextPriority]_vars

\* The media volume fills up or is freed (downloads, other programs).
DiskSpaceChanges(gb) ==
  /\ freeSpaceGb # gb
  /\ freeSpaceGb' = gb
  /\ UNCHANGED <<dbVars, files, queueVars, bus, issued, reply, io, socketVars, lastEmit,
                 now, authVars, clientVars>>

\* Job creation and the first stage on a volume whose free space varies.
NextDisk ==
  \/ \E gb \in FreeSpaces : DiskSpaceChanges(gb)
  \/ \E dubbing \in BOOLEAN, cookies \in BOOLEAN : CreateJob(dubbing, cookies, defaultPriority)
  \/ \E id \in JobIds : CancelJob(id)
  \/ DownloadStart
  \/ \E p \in InFlight(downloading) : DownloadSucceed(p)
  \/ \E p \in InFlight(downloading) : DownloadFail(p, "Unsupported URL")
  \/ \E id \in JobIds : RetryJob(id)
  \/ HandleRedisEvent

SpecDisk == Init /\ [][NextDisk]_vars

\* The wall clock advances.
Tick(d, limit) ==
  /\ now + d <= limit
  /\ now' = now + d
  /\ UNCHANGED <<dbVars, files, queueVars, bus, issued, reply, io, socketVars, lastEmit,
                 freeSpaceGb, authVars, clientVars>>

\* The handlers and the aggregator writing rows while time passes.
NextTime ==
  \/ \E d \in TickSteps : Tick(d, MaxNow)
  \/ CreateJob(FALSE, FALSE, defaultPriority)
  \/ \E id \in JobIds : CancelJob(id)
  \/ \E id \in JobIds : RetryJob(id)
  \/ DownloadStart
  \/ \E p \in InFlight(downloading) : DownloadFail(p, "Unsupported URL")
  \/ HandleRedisEvent

SpecTime == Init /\ [][NextTime]_vars

\* ----------------------------------------------------------- authentication
pipelineVars ==
  <<dbVars, files, queueVars, bus, issued, reply, io, socketVars, lastEmit, freeSpaceGb,
    now, clientVars>>

\* POST /auth/login with good credentials: a fresh jti, a token signed with
\* it and the session row.
Login(jti) ==
  /\ ~tokens[jti].signedByGateway
  /\ tokens' = [tokens EXCEPT ![jti] = [signedByGateway |-> TRUE, exp |-> now + jwtExpiresIn]]
  /\ sessions' = [sessions EXCEPT ![jti] =
                    [exists |-> TRUE, expiresAt |-> toISOString(now + sessionLifetime),
                     revoked |-> FALSE]]
  /\ request' = NoRequest
  /\ UNCHANGED pipelineVars

\* request.jwtVerify(): the signature is the gateway's and exp has not passed.
jwtVerify(jti, signed) == signed /\ tokens[jti].signedByGateway /\ now < tokens[jti].exp

\* isSessionValid, with a variant that does not look at revoked.
isSessionValidIgnoringRevoked(jti) ==
  /\ sessions[jti].exists
  /\ sessions[jti].expiresAt > toISOString(now)

isSessionValid(jti) ==
  /\ sessions[jti].exists
  /\ ~sessions[jti].revoked
  /\ sessions[jti].expiresAt > toISOString(now)

\* The authenticate decorator: every token the gateway signs carries a jti.
authenticate(jti, signed) == jwtVerify(jti, signed) /\ isSessionValid(jti)

\* The preHandler of a mutating route has run for a request carrying a
\* token with this jti, genuine or forged.
Authenticate(call, jti, signed) ==
  /\ request' = [call |-> call, jti |-> jti,
                 authenticated |-> authenticate(jti, signed), at |-> now]
  /\ request' # request
  /\ UNCHANGED <<pipelineVars, sessions, tokens>>

\* The handler of the route runs for the request that passed the hook.
Authorized(call) ==
  /\ request.call = call
  /\ request.authenticated
  /\ request.at = now

\* POST /auth/logout: the hook, then revokeSession.
Logout(jti, signed) ==
  /\ request' = [call |-> "logout", jti |-> jti,
                 authenticated |-> authenticate(jti, signed), at |-> now]
  /\ sessions' = IF authenticate(jti, signed)
                 THEN [sessions EXCEPT ![jti].revoked = TRUE]
                 ELSE sessions
  /\ request' # request \/ sessions' # sessions
  /\ UNCHANGED <<pipelineVars, tokens>>

\* cleanupExpiredSessions: DELETE FROM sessions WHERE expires_at < now.
cleanupExpiredSessions ==
  /\ \E t \in Jtis : sessions[t].exists /\ sessions[t].expiresAt < toISOString(now)
  /\ sessions' = [t \in Jtis |->
                    IF sessions[t].exists /\ sessions[t].expiresAt < toISOString(now)
                    THEN NoSession ELSE sessions[t]]
  /\ UNCHANGED <<pipelineVars, tokens, request>>

MutatingCalls == {"create", "cancel", "delete"}

\* Sessions over time and the mutating calls made with their tokens.
NextAuth ==
  \/ \E jti \in Jtis : Login(jti)
  \/ \E jti \in Jtis, signed \in BOOLEAN : Logout(jti, signed)
  \/ \E call \in MutatingCalls, jti \in Jtis, signed \in BOOLEAN :
       Authenticate(call, jti, signed)
  \/ cleanupExpiredSessions
  \/ Tick(AuthTick, MaxAuthNow)
  \/ Authorized("create") /\ CreateJob(FALSE, FALSE, defaultPriority)
  \/ \E id \in JobIds : Authorized("cancel") /\ CancelJob(id)
  \/ \E id \in JobIds : Authorized("delete") /\ DeleteJob(id)

SpecAuth == Init /\ [][NextAuth]_vars

\* ------------------------------------------------------------- web client
\* SocketClient of the web UI (services/socket.ts). A socket object is
\* "connecting" from io() until its 'connect' event and again after the
\* transport was lost, "connected" in between. registered is what the server
\* holds for the socket: the jobs its subscribe handler added and its
\* unsubscribe handler has not removed.
\* Everything that is not the web client's.
gatewayVars ==
  <<dbVars, files, queueVars, bus, issued, reply, io, socketVars, lastEmit, freeSpaceGb,
    now, authVars>>

SubscribeMsg(jobIds) == [event |-> "subscribe", jobIds |-> jobIds]
UnsubscribeMsg(jobIds) == [event |-> "unsubscribe", jobIds |-> jobIds]

\* The server's handlers of the two messages, for one socket.
serverHandle(registered, msg) ==
  IF msg.event = "subscribe" THEN registered \cup msg.jobIds
  ELSE registered \ msg.jobIds

\* The packets of sendBuffer reach the server in the order they were emitted.
RECURSIVE emitBuffered(_, _)
emitBuffered(registered, sendBuffer) ==
  IF sendBuffer = <<>> THEN registered
  ELSE emitBuffered(serverHandle(registered, Head(sendBuffer)), Tail(sendBuffer))

\* this.socket?.emit: nothing without a socket; sent at once on a connected
\* socket; kept in sendBuffer until the 'connect' event otherwise.
emit(cs, s, msg) ==
  IF s = NULL THEN cs
  ELSE IF cs[s].state = "connected"
       THEN [cs EXCEPT ![s].registered = serverHandle(@, msg)]
       ELSE [cs EXCEPT ![s].sendBuffer = Append(@, msg)]

\* The packets one more emit may add to the buffer of this.socket.
BufferHasRoom ==
  socket # NULL /\ clientSockets[socket].state # "connected"
    => Len(clientSockets[socket].sendBuffer) < MaxBuffer

\* connect(): returns when this.socket is connected; otherwise io() makes a
\* new socket object and this.socket points at it. A socket this.socket
\* pointed at before is neither closed nor forgotten by socket.io.
connect ==
  /\ ~(socket # NULL /\ clientSockets[socket].state = "connected")
  /\ \E s \in ClientSockets :
       /\ clientSockets[s].state = "closed"
       /\ socket' = s
       /\ clientSockets' = [clientSockets EXCEPT ![s].state = "connecting"]
  /\ UNCHANGED <<subscribedJobs, subscriptionCounts, gatewayVars>>

\* The 'connect' event of socket object s: socket.io sends what was buffered,
\* then the handler emits on this.socket (the object connect() made last) a
\* subscribe for all of subscribedJobs.
onConnect(s) ==
  /\ clientSockets[s].state = "connecting"
  /\ BufferHasRoom
  /\ LET sent == [clientSockets EXCEPT
                    ![s] = [state |-> "connected", sendBuffer |-> <<>>,
                            registered |-> emitBuffered(@.registered, @.sendBuffer)]]
     IN clientSockets' = IF subscribedJobs # {}
                         THEN emit(sent, socket, SubscribeMsg(subscribedJobs))
                         ELSE sent
  /\ UNCHANGED <<socket, subscribedJobs, subscriptionCounts, gatewayVars>>

\* The transport of socket object s is lost: the server's disconnect handler
\* drops what it held for it, the 'disconnect' handler of the client only
\* logs, and socket.io connects the same object again.
onDisconnect(s) ==
  /\ clientSockets[s].state = "connected"
  /\ clientSockets' = [clientSockets EXCEPT ![s].state = "connecting",
                                            ![s].registered = {}]
  /\ UNCHANGED <<socket, subscribedJobs, subscriptionCounts, gatewayVars>>

\* disconnect(): closes this.socket and forgets it and both collections.
disconnect ==
  /\ socket # NULL
  /\ clientSockets' = [clientSockets EXCEPT ![socket] = NoSocket]
  /\ socket' = NULL
  /\ subscribedJobs' = {}
  /\ subscriptionCounts' = [j \in JobIds |-> 0]
  /\ UNCHANGED <<gatewayVars>>

\* subscribe(jobId): one more reference; the message goes out when the job
\* is not in subscribedJobs yet.
subscribe(jobId) ==
  /\ subscriptionCounts[jobId] < MaxCount
  /\ BufferHasRoom
  /\ subscriptionCounts' = [subscriptionCounts EXCEPT ![jobId] = @ + 1]
  /\ IF jobId \notin subscribedJobs
     THEN /\ subscribedJobs' = subscribedJobs \cup {jobId}
          /\ clientSockets' = emit(clientSockets, socket, SubscribeMsg({jobId}))
     ELSE UNCHANGED <<subscribedJobs, clientSockets>>
  /\ UNCHANGED <<socket, gatewayVars>>

\* An unsubscribe that tells the server at every call, whatever the count.
unsubscribeEveryCall(jobId) ==
  /\ BufferHasRoom
  /\ subscriptionCounts' =
       [subscriptionCounts EXCEPT ![jobId] = IF @ <= 1 THEN 0 ELSE @ - 1]
  /\ IF jobId \in subscribedJobs
     THEN /\ subscribedJobs' = subscribedJobs \ {jobId}
          /\ clientSockets' = emit(clientSockets, socket, UnsubscribeMsg({jobId}))
     ELSE UNCHANGED <<subscribedJobs, clientSockets>>
  /\ UNCHANGED <<socket, gatewayVars>>

\* unsubscribe(jobId): the last reference (or none) removes the count and,
\* when the job is in subscribedJobs, the job, and the message goes out;
\* otherwise one reference less.
unsubscribe(jobId) ==
  /\ BufferHasRoom
  /\ IF subscriptionCounts[jobId] <= 1
     THEN /\ subscriptionCounts' = [subscriptionCounts EXCEPT ![jobId] = 0]
          /\ IF jobId \in subscribedJobs
             THEN /\ subscribedJobs' = subscribedJobs \ {jobId}
                  /\ clientSockets' =
                       emit(clientSockets, socket, UnsubscribeMsg({jobId}))
             ELSE UNCHANGED <<subscribedJobs, clientSockets>>
     ELSE /\ subscriptionCounts' = [subscriptionCounts EXCEPT ![jobId] = @ - 1]
          /\ UNCHANGED <<subscribedJobs, clientSockets>>
  /\ UNCHANGED <<socket, gatewayVars>>

\* The callers of SocketClient. App shows LoginForm until isAuthenticated and
\* the job list after; the effects of one commit run one after the other,
\* the children's first, and no socket event comes in between them.
\* JobList's effect of the commit that first shows the list: connect().
JobListEffect ==
  /\ ui = "LoginForm"
  /\ connect
  /\ ui' = "JobListEffect"

\* App's effect of the same commit (isAuthenticated): connect() again.
AppEffectConnect ==
  /\ ui = "JobListEffect"
  /\ connect
  /\ ui' = "JobList"

\* App's effect and its cleanup when isAuthenticated ends: disconnect().
AppEffectDisconnect ==
  /\ ui = "JobList"
  /\ disconnect
  /\ ui' = "LoginForm"

\* JobItem's effect for a job in an active status: subscribe(job.id). The
\* items of the commit that shows the list run it before any connect().
JobItemEffect(jobId) ==
  /\ ui # "JobListEffect"
  /\ subscribe(jobId)
  /\ UNCHANGED ui

\* The cleanup of that effect: unsubscribe(job.id).
JobItemCleanup(jobId) ==
  /\ ui # "JobListEffect"
  /\ unsubscribe(jobId)
  /\ UNCHANGED ui

\* The events socket.io raises on the client's socket objects.
SocketConnects(s) ==
  /\ ui # "JobListEffect"
  /\ onConnect(s)
  /\ UNCHANGED ui

SocketDisconnects(s) ==
  /\ ui # "JobListEffect"
  /\ onDisconnect(s)
  /\ UNCHANGED ui

\* The web client alone: its components' calls and the events of its sockets.
NextClient ==
  \/ JobListEffect
  \/ AppEffectConnect
  \/ AppEffectDisconnect
  \/ \E s \in ClientSockets : SocketConnects(s)
  \/ \E s \in ClientSockets : SocketDisconnects(s)
  \/ \E jobId \in JobIds : JobItemEffect(jobId)
  \/ \E jobId \in JobIds : JobItemCleanup(jobId)

SpecClient == Init /\ [][NextClient]_vars

\* The same steps without the fairness of the listener: the Control API, the
\* workers and the aggregator. Whether the websocket server has started
\* changes nothing in the tables, the queues or the replies while no socket
\* connects.
SpecPipeline == Init /\ [][NextLive]_vars

SpecLive == Init /\ [][NextLive]_vars /\ WF_vars(HandleRedisEvent)

\* ===================================================================== claims
\* The legal transition table of the job state machine.
LegalTransitions ==
  {<<"QUEUED", "DOWNLOADING">>, <<"QUEUED", "CANCELED">>, <<"QUEUED", "FAILED">>,
   <<"DOWNLOADING", "DOWNLOADED">>, <<"DOWNLOADING", "FAILED">>,
   <<"DOWNLOADING", "CANCELED">>,
   <<"DOWNLOADED", "DUBBING">>, <<"DOWNLOADED", "MUXING">>,
   <<"DOWNLOADED", "FAILED">>, <<"DOWNLOADED", "CANCELED">>,
   <<"DUBBING", "DUBBED">>, <<"DUBBING", "FAILED">>, <<"DUBBING", "CANCELED">>,
   <<"DUBBED", "MUXING">>, <<"DUBBED", "FAILED">>, <<"DUBBED", "CANCELED">>,
   <<"MUXING", "COMPLETE">>, <<"MUXING", "FAILED">>, <<"MUXING", "CANCELED">>}

\* The exits of a terminal state that retry and resume record.
RetryResumeExits ==
  {<<"FAILED", "QUEUED">>, <<"CANCELED", "QUEUED">>,
   <<"FAILED", "DOWNLOADED">>, <<"FAILED", "DUBBED">>}

\* The (from, to) pairs of the state_change rows of a job's log.
RecordedTransitions(id) ==
  {<<events[id][i].from, events[id][i].to>> :
     i \in {k \in 1..Len(events[id]) : events[id][k].event = "state_change"}}

\* C1 as stated: every state_change row of every job's log has a (from, to)
\* pair of the legal transition table.
C1_AllRecordedLegal ==
  \A id \in JobIds : RecordedTransitions(id) \subseteq LegalTransitions

\* C1 amended: every state_change row has a (from, to) pair of the legal
\* transition table, or is the exit of a terminal state recorded by retry
\* (failed or canceled to queued) or by resume (failed to downloaded or dubbed).
C1_RecordedLegalOrExit ==
  \A id \in JobIds :
    RecordedTransitions(id) \subseteq (LegalTransitions \cup RetryResumeExits)

\* C1 witness: a log holding a worker's transition, a cancel and a retry.
C1_Witness ==
  \E id \in JobIds :
    {<<"QUEUED", "DOWNLOADING">>, <<"DOWNLOADING", "CANCELED">>,
     <<"CANCELED", "QUEUED">>} \subseteq RecordedTransitions(id)

\* C2: once a job's persisted status is terminal, it changes only in a step
\* of a successful retry or resume call (the step appends a retry row).
C2_TerminalLeftOnlyByRetryOrResume ==
  [][\A id \in JobIds :
       (/\ jobs[id].exists
        /\ jobs'[id].exists
        /\ jobs[id].status \in TerminalStatus
        /\ jobs'[id].status # jobs[id].status)
       => (RetryJob(id) \/ ResumeJob(id))]_vars

\* C3: for every job row, completed_at is non-null exactly when the status is
\* complete, failed or canceled.
C3_CompletedAtIffTerminal ==
  \A id \in JobIds :
    jobs[id].exists => (jobs[id].completedAt <=> jobs[id].status \in TerminalStatus)

\* No message of the job is in flight and no worker is about to publish one
\* for a failure it caught.
FailureProcessed(id) ==
  /\ \A i \in 1..Len(bus) : bus[i].jobId # id
  /\ bull["dub"][id].pc # "catch"

\* C4: a failed job whose failure events have all been processed carries the
\* error message on its row.
C4_FailedKeepsError ==
  \A id \in JobIds :
    (jobs[id].exists /\ jobs[id].status = "FAILED" /\ FailureProcessed(id))
      => jobs[id].error # NULL

\* The status the state_change rows of the log account for.
LoggedStatus(id) ==
  LET rows == {k \in 1..Len(events[id]) : events[id][k].event = "state_change"}
  IN IF rows = {} THEN "QUEUED"
     ELSE events[id][CHOOSE k \in rows : \A l \in rows : l <= k].to

\* C5: in every persisted state the job's status is the one its latest
\* state_change row records: no status change without its row, no row without
\* the status change.
C5_StatusMatchesLog ==
  \A id \in JobIds : jobs[id].exists => jobs[id].status = LoggedStatus(id)

\* The pending entries of job id on the plain 'download' list.
DownloadListEntries(id) == {i \in 1..Len(downloadList) : downloadList[i].jobId = id}

\* C6: however often enqueue ran for a job, the download queue holds at most
\* one pending entry for it (the BullMQ queues hold one entry per job id by
\* construction; the plain list is where entries can pile up).
C6_AtMostOnePendingEntry ==
  \A id \in JobIds : Cardinality(DownloadListEntries(id)) <= 1

\* A retry of the dub entry is still to come.
AttemptsRemain(id) ==
  /\ bull["dub"][id].state \in {"delayed", "waiting", "active"}
  /\ bull["dub"][id].attemptsMade < attempts

\* C10: an error of the transient class never moves a job to failed while
\* the job's dub entry has attempts left.
C10_TransientNotFailedWhileAttemptsRemain ==
  [][\A id \in JobIds :
       (/\ bus # <<>>
        /\ Head(bus).jobId = id
        /\ Head(bus).type = "error"
        /\ isRetryableError(Head(bus).message)
        /\ AttemptsRemain(id)
        /\ jobs[id].exists
        /\ jobs[id].status # "FAILED")
       => ~(HandleRedisEvent /\ jobs'[id].status = "FAILED")]_vars

\* A message was forwarded.
Forwarded == lastEmit.type # NULL

\* C7: every client subscribed to the job of a forwarded message got exactly
\* one copy of it.
C7_SubscribedGetsOneCopy ==
  Forwarded => \A s \in lastEmit.subscribed : lastEmit.copies[s] = 1

C9_RefCountedRoom ==
  \A s \in connected : \A id \in JobIds : subCount[s][id] >= 1 => id \in rooms[s]

\* The error event of the dub entry's last failed attempt is in flight.
LastAttemptFailed(id) ==
  /\ bull["dub"][id].state = "failed"
  /\ \E i \in 1..Len(bus) : bus[i] = ErrorMsg(id, bull["dub"][id].failedReason, FALSE)

\* The processor threw on the entry's last permitted attempt.
LastAttemptThrows(id) ==
  /\ DubCatch(id)
  /\ bull["dub"][id].attemptsMade + 1 = attempts

\* The aggregator handles a non-retryable error event of an existing job.
HandlesFinalError(id) ==
  /\ HandleRedisEvent
  /\ Head(bus).jobId = id
  /\ Head(bus).type = "error"
  /\ ~Head(bus).retryable
  /\ jobs[id].exists

\* C11: when the last permitted attempt of a dub entry fails, the entry ends
\* in the failed state; the aggregator sets the job to failed when it handles
\* the error event, and so the job is eventually failed (or deleted).
C11_ExhaustedEntryFailsJob ==
  /\ [][\A id \in JobIds :
         LastAttemptThrows(id) => bull'["dub"][id].state = "failed"]_vars
  /\ [][\A id \in JobIds :
         HandlesFinalError(id) => jobs'[id].status = "FAILED"]_vars
  /\ \A id \in JobIds :
       (LastAttemptFailed(id) /\ jobs[id].exists)
         ~> (jobs[id].status = "FAILED" \/ ~jobs[id].exists)

\* C11 witness: the entry is failed after its last attempt and the job is
\* failed with the message of that attempt's error event.
C11_Witness ==
  \E id \in JobIds :
    /\ bull["dub"][id].state = "failed"
    /\ bull["dub"][id].attemptsMade = attempts
    /\ jobs[id].exists
    /\ jobs[id].status = "FAILED"
    /\ jobs[id].error = bull["dub"][id].failedReason

\* A cancel call for job id, through the endpoint or the control action.
Cancel(id) == CancelJob(id) \/ ControlCancel(id)

\* The lists of payloads the download and mux workers pop.
PendingPayloads(id) ==
  {<<"download", i>> : i \in DownloadListEntries(id)}
    \cup {<<"mux", i>> : i \in {k \in 1..Len(muxList) : muxList[k].jobId = id}}

\* The BullMQ queues in which job id has a waiting or delayed entry.
PendingQueues(id) ==
  {q \in QueueNames : bull[q][id].state \in {"waiting", "delayed"}}

\* C12: after a successful cancel, through the endpoint or the control
\* action, no pending entry of the job remains in any queue.
C12_CancelRemovesPendingEntries ==
  [][\A id \in JobIds :
       (Cancel(id) /\ reply'.code = "OK")
         => (PendingQueues(id)' = {} /\ PendingPayloads(id)' = {})]_vars

\* C13: a cancel call for a complete, failed or canceled job is rejected
\* with invalid_state and changes nothing.
C13_TerminalCancelRejected ==
  [][\A id \in JobIds :
       (jobs[id].exists /\ jobs[id].status \in TerminalStatus /\ Cancel(id))
         => /\ reply'.code = "INVALID_STATE"
            /\ UNCHANGED <<dbVars, files, queueVars>>]_vars

\* C13 witness: the last call was a cancel that was rejected, for a job that
\* is complete or failed and was never canceled.
C13_Witness ==
  /\ reply.call \in {"cancel", "control"}
  /\ reply.code = "INVALID_STATE"
  /\ \E id \in JobIds :
       /\ jobs[id].exists
       /\ jobs[id].status \in {"COMPLETE", "FAILED"}
       /\ \A i \in 1..Len(events[id]) : events[id][i].to # "CANCELED"

\* C14 as stated: a cancel call for a job that is canceled returns the
\* canceled job and leaves the queues as they are.
C14_SecondCancelReturnsCanceled ==
  [][\A id \in JobIds :
       (jobs[id].exists /\ jobs[id].status = "CANCELED" /\ Cancel(id))
         => /\ reply'.status = "CANCELED"
            /\ UNCHANGED queueVars]_vars

\* C14: a cancel call for a job that is canceled is rejected with
\* invalid_state; the job stays canceled and the queues are left as they are.
C14_SecondCancelRejected ==
  [][\A id \in JobIds :
       (jobs[id].exists /\ jobs[id].status = "CANCELED" /\ Cancel(id))
         => /\ reply'.code = "INVALID_STATE"
            /\ jobs'[id].status = "CANCELED"
            /\ UNCHANGED queueVars]_vars

\* C14 witness: the last call was a cancel that was rejected, the job being
\* canceled (no worker event sets a job canceled).
C14_Witness ==
  /\ reply = Reply("cancel", "INVALID_STATE", NULL)
  /\ \E id \in JobIds : jobs[id].exists /\ jobs[id].status = "CANCELED"

\* C15: a retry call is accepted when the job is failed or canceled, and is
\* otherwise rejected with invalid_state, changing nothing.
C15_RetryOnlyFromFailedOrCanceled ==
  [][\A id \in JobIds :
       (jobs[id].exists /\ RetryJob(id))
         => IF jobs[id].status \in {"FAILED", "CANCELED"}
            THEN reply'.code = "OK"
            ELSE /\ reply' = Reply("retry", "INVALID_STATE", NULL)
                 /\ UNCHANGED <<dbVars, files, queueVars>>]_vars

\* C15 witness: a retry call for a canceled job was accepted.
C15_Witness ==
  /\ reply = Reply("retry", "OK", "QUEUED")
  /\ \E id \in JobIds :
       \E i \in 1..Len(events[id]) :
         events[id][i].event = "retry" /\ events[id][i].from = "CANCELED"

\* A retry call for job id that succeeded.
RetrySucceeds(id) == RetryJob(id) /\ reply'.code = "OK"

\* C16: after a successful retry the job is queued, its error is cleared, a
\* retry event was appended, and the download queue holds a waiting entry
\* and the download payload of the job.
C16_RetryRequeuesDownload ==
  [][\A id \in JobIds :
       RetrySucceeds(id)
         => /\ jobs'[id].status = "QUEUED"
            /\ jobs'[id].error = NULL
            /\ Len(events'[id]) = Len(events[id]) + 2
            /\ events'[id][Len(events[id]) + 1].event = "retry"
            /\ bull'["download"][id].state = "waiting"
            /\ downloadList' # <<>>
            /\ downloadList'[Len(downloadList')] =
                 DownloadEntry(id, jobs[id].requestedDubbing, jobs[id].priority)]_vars

\* C16 witness: a failed job was retried and is queued with no error, its
\* payload on the download list.
C16_Witness ==
  /\ reply = Reply("retry", "OK", "QUEUED")
  /\ \E id \in JobIds :
       /\ jobs[id].status = "QUEUED"
       /\ jobs[id].error = NULL
       /\ \E i \in 1..Len(events[id]) :
            events[id][i].event = "retry" /\ events[id][i].from = "FAILED"
       /\ DownloadListEntries(id) # {}

\* C17: a successful retry increments the job's retry count by one.
C17_RetryIncrementsCount ==
  [][\A id \in JobIds :
       RetrySucceeds(id) => jobs'[id].retries = jobs[id].retries + 1]_vars

\* A resume call for job id that succeeded.
ResumeSucceeds(id) == ResumeJob(id) /\ reply'.code = "OK"

\* C18: a successful retry or resume adds exactly one retry event to the
\* job's log and does not lower the job's retry count.
C18_RetryEventsGrowByOne ==
  [][\A id \in JobIds :
       (RetrySucceeds(id) \/ ResumeSucceeds(id))
         => /\ Cardinality(RetryRows(id))' = Cardinality(RetryRows(id)) + 1
            /\ jobs'[id].retries >= jobs[id].retries]_vars

\* C18 witness: a resume succeeded and its retry event is in the log.
C18_Witness ==
  /\ reply.call = "resume"
  /\ reply.code = "OK"
  /\ \E id \in JobIds : Cardinality(RetryRows(id)) = 1

\* C19: a resume call is accepted only when the job is failed; in any other
\* state, canceled included, it is rejected with invalid_state and changes
\* nothing.
C19_ResumeOnlyFromFailed ==
  [][\A id \in JobIds :
       (jobs[id].exists /\ ResumeJob(id))
         => IF jobs[id].status = "FAILED"
            THEN reply'.code # "INVALID_STATE"
            ELSE /\ reply' = Reply("resume", "INVALID_STATE", NULL)
                 /\ UNCHANGED <<dbVars, files, queueVars>>]_vars

\* C19 witness: the last call was a resume that was rejected, the job being
\* canceled (no worker event sets a job canceled).
C19_Witness ==
  /\ reply = Reply("resume", "INVALID_STATE", NULL)
  /\ \E id \in JobIds : jobs[id].exists /\ jobs[id].status = "CANCELED"

\* The files of job id the resume handler looks for, on disk.
videoExists(id) == files[id].video

dubbedAudioExists(id) == files[id].dubbedAudio

\* A resume call for failed job id that ends in a decision: it resumes the
\* job or refuses to.
ResumeDecides(id) ==
  /\ jobs[id].exists
  /\ jobs[id].status = "FAILED"
  /\ ResumeJob(id)
  /\ reply'.code \in {"OK", "CANNOT_RESUME"}

\* C20: resume of a failed job follows the decision table, first match
\* winning: dubbed reached and video and dubbed audio exist -> state dubbed
\* and a mux entry; else downloaded reached, video exists and dubbing was
\* requested -> state downloaded and a dub entry; else cannot_resume.
C20_ResumeDecisionTable ==
  [][\A id \in JobIds :
       ResumeDecides(id)
         => IF dubbingCompleted(id) /\ videoExists(id) /\ dubbedAudioExists(id)
            THEN /\ jobs'[id].status = "DUBBED"
                 /\ bull'["mux"][id].state = "waiting"
            ELSE IF downloadCompleted(id) /\ videoExists(id)
                      /\ jobs[id].requestedDubbing
            THEN /\ jobs'[id].status = "DOWNLOADED"
                 /\ bull'["dub"][id].state = "waiting"
            ELSE /\ reply'.code = "CANNOT_RESUME"
                 /\ UNCHANGED <<dbVars, files, queueVars>>]_vars

\* The stages the whole log of job id shows as reached.
everReached(id) == reachedStates(events[id])

\* C21: resume decides from the full event history: when any state_change
\* row of a failed job shows the download completed, the video exists and
\* dubbing was requested, resume does not answer cannot_resume, however many
\* rows the log has.
C21_ResumeReadsFullHistory ==
  [][\A id \in JobIds :
       (/\ jobs[id].exists
        /\ jobs[id].status = "FAILED"
        /\ "DOWNLOADED" \in everReached(id)
        /\ hasVideo(id)
        /\ jobs[id].requestedDubbing
        /\ ResumeJob(id))
         => reply'.code # "CANNOT_RESUME"]_vars

\* No stage of job id ever completed, going by its whole log.
NoStageCompleted(id) ==
  /\ "DOWNLOADED" \notin everReached(id)
  /\ "DUBBED" \notin everReached(id)

\* C22: a resume call for a failed job of which no stage completed is
\* rejected with cannot_resume and changes nothing.
C22_NoStageCannotResume ==
  [][\A id \in JobIds :
       (/\ jobs[id].exists
        /\ jobs[id].status = "FAILED"
        /\ NoStageCompleted(id)
        /\ ResumeJob(id))
         => /\ reply' = Reply("resume", "CANNOT_RESUME", NULL)
            /\ UNCHANGED <<dbVars, files, queueVars>>]_vars

\* C22 witness: the last call was a resume answered cannot_resume, for a
\* failed job whose log shows no completed stage.
C22_Witness ==
  /\ reply = Reply("resume", "CANNOT_RESUME", NULL)
  /\ \E id \in JobIds :
       /\ jobs[id].exists
       /\ jobs[id].status = "FAILED"
       /\ NoStageCompleted(id)

\* Job id completed its download and then failed in dubbing with a
\* non-retryable error, and its video file exists.
FailedInDubbing(id) ==
  /\ jobs[id].exists
  /\ jobs[id].requestedDubbing
  /\ jobs[id].status = "FAILED"
  /\ jobs[id].error \in {m \in ErrorMessages : ~isRetryableError(m)}
  /\ "DOWNLOADED" \in everReached(id)
  /\ files[id].video

\* C23: a resume call for a job that completed its download and then failed
\* in dubbing with a non-retryable error, its video existing, succeeds: the
\* job is set to downloaded and a dub entry is enqueued.
C23_ResumeAfterDubbingFailure ==
  [][\A id \in JobIds :
       (FailedInDubbing(id) /\ ResumeJob(id))
         => /\ reply' = Reply("resume", "OK", "DOWNLOADED")
            /\ jobs'[id].status = "DOWNLOADED"
            /\ bull'["dub"][id].state = "waiting"]_vars

\* The stages of a run with dubbing, from downloading to complete.
DubbedRunStages ==
  {"DOWNLOADING", "DOWNLOADED", "DUBBING", "DUBBED", "MUXING", "COMPLETE"}

\* C24: when a job with requestedDubbing reached complete through
\* downloading, downloaded, dubbing, dubbed and muxing, its media row has a
\* video_path and an audio_dubbed_path.
C24_CompleteHasBothPaths ==
  \A id \in JobIds :
    (/\ jobs[id].exists
     /\ jobs[id].requestedDubbing
     /\ jobs[id].status = "COMPLETE"
     /\ DubbedRunStages \subseteq everReached(id))
      => (media[id].videoPath /\ media[id].audioDubbedPath)

\* A message announcing the state `to` for job id is in flight.
Announced(id, to) ==
  \E i \in 1..Len(bus) :
    bus[i].jobId = id /\ bus[i].type = "state_change" /\ bus[i].to = to

\* The download (the dubbing) of job id has succeeded: the worker announced
\* it, and the announcement is in the log or still in flight.
DownloadSucceeded(id) ==
  "DOWNLOADED" \in everReached(id) \/ Announced(id, "DOWNLOADED")

DubbingSucceeded(id) ==
  "DUBBED" \in everReached(id) \/ Announced(id, "DUBBED")

ControlApiCall ==
  \/ \E dubbing \in BOOLEAN, cookies \in BOOLEAN : CreateJob(dubbing, cookies, defaultPriority)
  \/ \E id \in JobIds :
       \/ ControlCancel(id)
       \/ CancelJob(id)
       \/ DeleteJob(id)
       \/ RetryJob(id)
       \/ ResumeJob(id)

\* C26: a Control API call that returns an error has changed neither the
\* persisted job, nor the event log, nor the queues.
C26_ErrorReplyChangesNothing ==
  [][(ControlApiCall /\ reply'.code # "OK")
       => UNCHANGED <<jobs, events, queueVars>>]_vars

\* The last Control API call was a cancel or a delete that succeeded; with
\* one job id it was a call for the job that was issued.
CanceledOrDeleted(id) ==
  /\ id \in issued
  /\ reply.call \in {"cancel", "delete"}
  /\ reply.code = "OK"

\* C27: once cancel(id) or delete(id) has returned successfully, there is no
\* directory incomplete/{id}/ and no file at the job's recorded video_path,
\* also when a worker was processing the job at the time of the call.
C27_NoFilesAfterCancelOrDelete ==
  \A id \in JobIds :
    CanceledOrDeleted(id)
      => /\ ~files[id].tempDir
         /\ media[id].videoPath => ~files[id].video

\* Job id was created and its row is gone: it was deleted.
Deleted(id) == id \in issued /\ ~jobs[id].exists

\* C28: after delete(id) no job, media or event row of id remains, whatever
\* the workers publish for the job afterwards.
C28_DeleteLeavesNoRows ==
  \A id \in JobIds :
    Deleted(id) => (jobs[id] = NoJob /\ media[id] = NoMedia /\ events[id] = <<>>)

\* C28 witness: the job was deleted while its download ran, and the
\* messages the worker published afterwards were all handled.
C28_Witness ==
  \E id \in JobIds :
    /\ Deleted(id)
    /\ reply = Reply("delete", "OK", NULL)
    /\ files[id].video
    /\ bus = <<>>

\* The entries of each queue that a worker is processing.
InFlightCount(q) ==
  CASE q = "download" -> Len(downloading)
    [] q = "dub" -> Cardinality(DubActive)
    [] q = "mux" -> Len(muxing)

ConcurrencyLimit(q) ==
  CASE q = "download" -> downloadConcurrency
    [] q = "dub" -> dubConcurrency
    [] q = "mux" -> muxConcurrency

DownloadDispatched == Len(downloading') = Len(downloading) + 1

\* The entry the ordering rule lets go first: the earliest enqueued of those
\* with the highest priority.
FirstInPriorityOrder(list) ==
  list[CHOOSE k \in 1..Len(list) :
         /\ \A i \in 1..Len(list) : list[i].priority <= list[k].priority
         /\ \A i \in 1..(k - 1) : list[i].priority < list[k].priority]

\* C30: the entries of the download queue are dispatched higher priority
\* first, and in enqueue order among entries of equal priority.
C30_DownloadDispatchOrder ==
  [][DownloadDispatched
       => downloading'[Len(downloading')] = FirstInPriorityOrder(downloadList)]_vars

\* A step that creates a job.
JobCreated == issued' # issued

\* C31: a create request made while the free space is below the configured
\* minimum is rejected with insufficient_space and creates no job.
C31_LowSpaceRejectsCreate ==
  [][freeSpaceGb < minFreeSpaceGb
       => /\ ~JobCreated
          /\ (reply' # reply /\ reply'.call = "create")
               => reply'.code = "INSUFFICIENT_SPACE"]_vars

\* A step that changes the persisted priority of the existing job id: the
\* prioritize action succeeded.
Prioritized(id) ==
  /\ jobs[id].exists
  /\ jobs'[id].exists
  /\ jobs'[id].priority # jobs[id].priority

\* C32: prioritize updates the persisted priority and gives the job's
\* waiting queue entries the new priority.
C32_PrioritizeRepositionsEntry ==
  [][\A id \in JobIds :
       Prioritized(id)
         => /\ reply'.call = "control"
            /\ \A i \in DownloadListEntries(id) :
                 downloadList'[i].priority = jobs'[id].priority]_vars

\* A step that appends rows to the event log of job id.
Appended(id) == Len(events'[id]) > Len(events[id])

C34_UpdatedNotBeforeCreated ==
  \A id \in JobIds : jobs[id].exists => jobs[id].updatedAt >= jobs[id].createdAt

\* The session of a token exists, has not expired and has not been revoked.
SessionLive(jti) ==
  /\ jti \in Jtis
  /\ sessions[jti].exists
  /\ ~sessions[jti].revoked
  /\ now < sessions[jti].expiresAt

\* C35: a mutating call of the Control API runs only for a request whose
\* token has a session that exists, is unexpired and unrevoked; a request
\* that carries the token of a revoked session is rejected.
C35_MutatingCallNeedsLiveSession ==
  [][/\ ControlApiCall => SessionLive(request.jti)
     /\ (request' # request /\ request'.jti \in Jtis /\ sessions[request'.jti].revoked)
          => ~request'.authenticated]_vars

\* C35 witness: a cancel with the genuine, unexpired token of a session that
\* was logged out has been rejected, the job being there to cancel.
C35_Witness ==
  /\ request.call = "cancel"
  /\ request.jti \in Jtis
  /\ ~request.authenticated
  /\ jwtVerify(request.jti, TRUE)
  /\ sessions[request.jti].revoked
  /\ \E id \in JobIds : jobs[id].exists /\ jobs[id].status = "QUEUED"

\* C36: a client that has disconnected is in no job's subscriber set and
\* has no subscription entry.
C36_DisconnectClearsSubscriptions ==
  \A s \in Sockets \ connected :
    /\ socketJobSubscriptions[s] = {}
    /\ \A id \in JobIds : s \notin jobSocketSubscriptions[id]

\* C36 witness: a client that was subscribed when the last message was
\* forwarded has disconnected since, while another one stays subscribed.
C36_Witness ==
  \E s \in Sockets \ connected :
    /\ s \in lastEmit.subscribed
    /\ \E id \in JobIds : jobSocketSubscriptions[id] # {}

\* The queues in which job id has work pending or in flight: a payload on
\* the list of the download or mux worker or in the worker's hands, a dub
\* entry that waits, is delayed for its next attempt, or is active.
QueuesWithWork(id) ==
  {q \in QueueNames :
     \/ /\ q = "download"
        /\ \/ DownloadListEntries(id) # {}
           \/ \E p \in InFlight(downloading) : p.jobId = id
     \/ /\ q = "dub"
        /\ bull["dub"][id].state \in {"waiting", "delayed", "active"}
     \/ /\ q = "mux"
        /\ \/ \E i \in 1..Len(muxList) : muxList[i].jobId = id
           \/ \E p \in InFlight(muxing) : p.jobId = id}

\* C37: a job has pending or in-flight work in at most one queue.
C37_WorkInOneQueue ==
  \A id \in JobIds : Cardinality(QueuesWithWork(id)) <= 1

\* The positions of the state_change rows a step appends for job id.
NewStateChangeRows(id) ==
  {i \in (Len(events[id]) + 1)..Len(events'[id]) : events'[id][i].event = "state_change"}

\* C38: a state_change row records as from the persisted state just before
\* the change and as to the persisted state just after it.
C38_RowMatchesPersistedChange ==
  [][\A id \in JobIds :
       (jobs[id].exists /\ jobs'[id].exists)
         => \A i \in NewStateChangeRows(id) :
              /\ events'[id][i].from = jobs[id].status
              /\ events'[id][i].to = jobs'[id].status]_vars

\* The oldest unhandled message is for a job that has been deleted.
MessageForDeleted(id) ==
  /\ Deleted(id)
  /\ bus # <<>>
  /\ Head(bus).jobId = id

ClientRegistered(jobId) ==
  \E s \in ClientSockets : jobId \in clientSockets[s].registered

\* The client has a socket and none of its sockets is still connecting, so
\* every message it emitted has reached the server.
ClientSettled ==
  /\ socket # NULL
  /\ \A s \in ClientSockets : clientSockets[s].state # "connecting"

\* A call or event has put a message on the wire or into a send buffer.
MessageEmitted == clientSockets' # clientSockets

\* C40: once the web client's messages have reached the server, the client is
\* registered with the server for a job exactly when its reference count of
\* the job is at least one, whatever subscribe and unsubscribe calls,
\* connects and reconnects came before; subscribe(jobId) emits only when the
\* count goes from 0 to 1 and unsubscribe(jobId) only when it goes from 1 to 0.
C40_RegisteredIffCounted ==
  /\ [](ClientSettled =>
         \A jobId \in JobIds :
           ClientRegistered(jobId) <=> subscriptionCounts[jobId] >= 1)
  /\ [][\A jobId \in JobIds :
         /\ JobItemEffect(jobId) /\ MessageEmitted
              => subscriptionCounts[jobId] = 0 /\ subscriptionCounts'[jobId] = 1
         /\ JobItemCleanup(jobId) /\ MessageEmitted
              => subscriptionCounts[jobId] = 1 /\ subscriptionCounts'[jobId] = 0]_vars

\* The list is shown, both socket objects of its commit are connected, two
\* items hold the job and the server has it registered for the client.
C40_Witness ==
  /\ ClientSettled
  /\ \E s \in ClientSockets : s # socket /\ clientSockets[s].state = "connected"
  /\ \E jobId \in JobIds :
       /\ subscriptionCounts[jobId] = MaxCount
       /\ jobId \in clientSockets[socket].registered

====
